---- MODULE Spec2Model ----
(***************************************************************************)
(* run_python_sandbox of super_chatgpt.py as a state machine.             *)
(*                                                                         *)
(* Every call c of run_python_sandbox has its own program counter pc[c];  *)
(* the temporary directory (files) and the platform (hasResource) are     *)
(* shared by the calls.  The child process a call spawns runs beside it:  *)
(* time passes in ticks (Tick), the child ends by itself (Complete), by   *)
(* the CPU limit _limit installed, or some time after proc.kill()         *)
(* (ChildDie).                                                             *)
(***************************************************************************)
EXTENDS Integers, Sequences, FiniteSets, TLC

(* ------------------------------ bounds -------------------------------- *)
NumCalls == 2        \* calls of run_python_sandbox that may run concurrently
MaxTimeout == 4      \* largest timeout argument tried
MaxLen == 2          \* longest text a child writes to stdout
MaxErrLen == 1       \* longest text a child writes to stderr
MaxRetries == 5      \* largest max_retries argument tried
MaxDelay == 2        \* largest delay argument tried, besides the default
MaxLangEntries == 3  \* entries of language_metadata read at most
MaxSubs == 2         \* entries of one sub_languages read at most
MaxTypes == 2        \* most data types in data_type_metadata
MaxAsks == 2         \* calls of SuperChat.ask on one history
MaxChunks == 2       \* chunks of one streamed completion

(* ------------------------- program constants -------------------------- *)
DefaultTimeout == 4  \* def run_python_sandbox(code, timeout: int = 4)
CpuLimit == 2        \* resource.setrlimit(resource.RLIMIT_CPU, (2, 2))
KilledByLimit == -9  \* Popen.returncode of a child the kernel kills at the
                     \* hard RLIMIT_CPU (returncode is -N for signal N)
MemoryErrorStatus == 1  \* exit status of an interpreter whose allocation
                        \* the RLIMIT_AS of line 101 refused (MemoryError)

DefaultMaxRetries == 5  \* execute_sparql_with_retry(..., max_retries = 5,
DefaultDelay == 5       \*                               delay = 5.0)

Calls == 1..NumCalls
Names == 1..NumCalls           \* file names tempfile can hand out
Timeouts == (1..MaxTimeout) \cup {DefaultTimeout}
Durations == 0..(MaxTimeout + 1)

(* ------------------- what a code snippet does when run ---------------- *)
Chars == {"x", "\r", "\n"}

RECURSIVE TextsUpTo(_)
TextsUpTo(n) ==
    IF n = 0 THEN {<<>>}
    ELSE LET shorter == TextsUpTo(n - 1)
         IN  shorter \cup {Append(t, ch) : t \in shorter, ch \in Chars}

\* A snippet is the behaviour of the code text: it writes out and err,
\* works for dur ticks (burning CPU all the while when cpu is TRUE) and
\* exits with status rc.  When mem is TRUE its work ends with an allocation
\* beyond the 200MB of RLIMIT_AS that it does not handle: without the
\* limit the allocation succeeds and the snippet exits with rc.
Snippets ==
    [dur : Durations, cpu : BOOLEAN, rc : {0, 1},
     out : TextsUpTo(MaxLen), err : TextsUpTo(MaxErrLen), mem : BOOLEAN]

\* the snippets of the concurrent calls: a quick one and an endless one
ConcSnippets ==
    {[dur |-> 0, cpu |-> FALSE, rc |-> 0, out |-> <<"x">>, err |-> <<>>,
      mem |-> FALSE],
     [dur |-> MaxTimeout + 1, cpu |-> FALSE, rc |-> 1, out |-> <<"\r">>,
      err |-> <<"x">>, mem |-> FALSE]}

NoCode == [dur |-> 0, cpu |-> FALSE, rc |-> 0, out |-> <<>>, err |-> <<>>,
           mem |-> FALSE]

\* what the interpreter does when the file it is given does not exist
CantOpen == [dur |-> 0, cpu |-> FALSE, rc |-> 2, out |-> <<>>,
             err |-> <<"can't open file">>, mem |-> FALSE]

\* text=True: the pipes are read through a TextIOWrapper in universal-
\* newlines mode, which hands "\r\n" and a lone "\r" to the reader as "\n".
RECURSIVE Decode(_)
Decode(t) ==
    IF t = <<>> THEN <<>>
    ELSE IF Head(t) = "\r"
         THEN IF Len(t) >= 2 /\ t[2] = "\n"
              THEN <<"\n">> \o Decode(Tail(Tail(t)))
              ELSE <<"\n">> \o Decode(Tail(t))
         ELSE <<Head(t)>> \o Decode(Tail(t))

(* ------------------------------ results ------------------------------- *)
NoResult == [none |-> TRUE]
None == [none |-> TRUE]
NoFile == [none |-> TRUE]

Completed(rc, out, err) == [returncode |-> rc, stdout |-> out, stderr |-> err]

TimedOut == [error |-> "timeout", stdout |-> <<>>,
             stderr |-> <<"Execution timed out">>]

(* ------------------------------- state -------------------------------- *)
VARIABLES
    pc,          \* pc[c]: where call c is in run_python_sandbox
    code,        \* code[c]: the code argument
    timeout,     \* timeout[c]: the timeout argument
    tmp_path,    \* tmp_path[c]: name of the temporary file, 0 before it exists
    files,       \* files[n]: the file named n in the temporary directory
    cstate,      \* cstate[c]: state of the child process of call c
    ccode,       \* ccode[c]: the code the child of call c loaded
    climited,    \* climited[c]: _limit ran in the child of call c
    elapsed,     \* elapsed[c]: ticks since the child was spawned
    result,      \* result[c]: value of the return statement executed
    raised,      \* raised[c]: exception leaving the call, "none" if none
    expired,     \* expired[c]: communicate raised TimeoutExpired
    rm,          \* rm[c]: outcome of os.remove, "none" before it is tried
    count,       \* count[c]: spawns, kills, removes and returns so far
    hasResource, \* the platform has the resource module
    plimited     \* the limits of _limit are in force in the parent process

\* execute_sparql_with_retry of filtering.py
VARIABLES
    rpc,         \* where the call of execute_sparql_with_retry is
    sparql,      \* the module-level client: "client", or "None" when the
                 \* import of line 9 failed
    max_retries, \* the max_retries argument
    delay,       \* the delay argument
    attempt,     \* the loop variable of "for attempt in range(max_retries)"
    results,     \* the value the call returns
    events       \* what the call has done so far: its queries and sleeps

\* process_limited_subset of filtering.py
VARIABLES
    spc,                 \* where the call of process_limited_subset is
    max_languages,       \* the max_languages argument
    max_data_types,      \* the max_data_types argument
    data_type_metadata,  \* the QIDs of the data types, in file order
    nlang,               \* entries of language_metadata read so far
    nsub,                \* entries of the current sub_languages read so far
    lcount,              \* the local variable count
    language_qids,       \* the dict language_qids, in insertion order
    limited_data_types,  \* the dict limited_data_types, in order
    li,                  \* position of the outer loop of lines 318-347
    di,                  \* position of the inner loop of lines 322-347
    issued               \* the calls of filtering made so far

subsetVars == <<spc, max_languages, max_data_types, data_type_metadata,
                nlang, nsub, lcount, language_qids, limited_data_types,
                li, di, issued>>

\* SuperChat of super_chatgpt.py
VARIABLES
    apc,            \* where the call of ask is
    openai,         \* the module-level name openai
    messages,       \* self.messages
    before,         \* self.messages when the current call of ask began
    prompt,         \* the prompt argument
    stream,         \* the stream argument
    response_text,  \* the local variable response_text
    nchunks,        \* chunks of the stream read so far
    ret,            \* what the last call of ask returned
    path,           \* the path the last call of ask returned on
    asks            \* calls of ask begun so far

chatVars == <<apc, openai, messages, before, prompt, stream, response_text,
              nchunks, ret, path, asks>>

restVars == <<subsetVars, chatVars>>

retryVars == <<rpc, sparql, max_retries, delay, attempt, results, events>>

sandboxVars == <<pc, code, timeout, tmp_path, files, cstate, ccode, climited,
                 elapsed, result, raised, expired, rm, count, hasResource,
                 plimited>>

vars == <<pc, code, timeout, tmp_path, files, cstate, ccode, climited,
          elapsed, result, raised, expired, rm, count, hasResource,
                   plimited, retryVars, restVars>>

\* the tick at which the child ends by itself, and the status it ends with
EndTime(c) ==
    IF climited[c] /\ ccode[c].cpu /\ ccode[c].dur > CpuLimit
    THEN CpuLimit ELSE ccode[c].dur

\* ExitStatus with no RLIMIT_AS in _limit: the allocation succeeds
ExitStatus_NoMemoryLimit(c) ==
    IF climited[c] /\ ccode[c].cpu /\ ccode[c].dur > CpuLimit
    THEN KilledByLimit ELSE ccode[c].rc

ExitStatus(c) ==
    IF climited[c] /\ ccode[c].cpu /\ ccode[c].dur > CpuLimit
    THEN KilledByLimit
    ELSE IF climited[c] /\ ccode[c].mem THEN MemoryErrorStatus
         ELSE ccode[c].rc

\* what the child has written to stderr when it ends by itself: the
\* interpreter adds the traceback of the MemoryError to the snippet's text
ChildErr(c) ==
    IF climited[c] /\ ccode[c].mem
          /\ ~(ccode[c].cpu /\ ccode[c].dur > CpuLimit)
    THEN Append(ccode[c].err, "MemoryError") ELSE ccode[c].err

\* no call of process_limited_subset is under way
SubsetOff ==
    /\ spc = "off"
    /\ max_languages = 0
    /\ max_data_types = 0
    /\ data_type_metadata = <<>>
    /\ nlang = 0
    /\ nsub = 0
    /\ lcount = 0
    /\ language_qids = <<>>
    /\ limited_data_types = <<>>
    /\ li = 1
    /\ di = 1
    /\ issued = <<>>

\* no SuperChat is in use
ChatOff ==
    /\ apc = "off"
    /\ openai = "None"
    /\ messages = <<>>
    /\ before = <<>>
    /\ prompt = <<>>
    /\ stream = FALSE
    /\ response_text = <<>>
    /\ nchunks = 0
    /\ ret = <<>>
    /\ path = "none"
    /\ asks = 0

RestOff == SubsetOff /\ ChatOff

\* no call of execute_sparql_with_retry is under way
RetryOff ==
    /\ rpc = "off"
    /\ sparql = "client"
    /\ max_retries = 0
    /\ delay = 0
    /\ attempt = 0
    /\ results = None
    /\ events = <<>>

InitCommon ==
    /\ RetryOff
    /\ RestOff
    /\ tmp_path = [c \in Calls |-> 0]
    /\ files = [n \in Names |-> NoFile]
    /\ cstate = [c \in Calls |-> "none"]
    /\ ccode = [c \in Calls |-> NoCode]
    /\ climited = [c \in Calls |-> FALSE]
    /\ elapsed = [c \in Calls |-> 0]
    /\ result = [c \in Calls |-> NoResult]
    /\ raised = [c \in Calls |-> "none"]
    /\ expired = [c \in Calls |-> FALSE]
    /\ rm = [c \in Calls |-> "none"]
    /\ count = [c \in Calls |->
                  [spawns |-> 0, kills |-> 0, removes |-> 0, returns |-> 0]]
    /\ hasResource \in BOOLEAN
    /\ plimited = FALSE

\* one call, any snippet and any timeout
Init ==
    /\ InitCommon
    /\ pc = [c \in Calls |-> IF c = 1 THEN "start" ELSE "off"]
    /\ \E s \in Snippets : code = [c \in Calls |-> IF c = 1 THEN s ELSE NoCode]
    /\ \E t \in Timeouts :
          timeout = [c \in Calls |-> IF c = 1 THEN t ELSE DefaultTimeout]

\* every call runs, concurrently with the others
InitConc ==
    /\ InitCommon
    /\ pc = [c \in Calls |-> "start"]
    /\ code \in [Calls -> ConcSnippets]
    /\ timeout = [c \in Calls |-> 1]

(* ------------------------------ actions ------------------------------- *)

\* Create without the exclusive creation: the name may be one in use
Create_AnyName(c) ==
    /\ pc[c] = "start"
    /\ \E n \in Names :
          /\ files' = [files EXCEPT ![n] = [owner |-> c, content |-> code[c]]]
          /\ tmp_path' = [tmp_path EXCEPT ![c] = n]
    /\ pc' = [pc EXCEPT ![c] = "try"]
    /\ UNCHANGED <<code, timeout, cstate, ccode, climited, elapsed, result,
                   raised, expired, rm, count, hasResource,
                   plimited, retryVars,
                   restVars>>

\* with tempfile.NamedTemporaryFile("w", suffix=".py", delete=False) as tf:
\* the file is created exclusively, under a name no existing file has
Create(c) ==
    /\ pc[c] = "start"
    /\ \E n \in Names :
          /\ files[n] = NoFile
          /\ files' = [files EXCEPT ![n] = [owner |-> c, content |-> code[c]]]
          /\ tmp_path' = [tmp_path EXCEPT ![c] = n]
    /\ pc' = [pc EXCEPT ![c] = "try"]
    /\ UNCHANGED <<code, timeout, cstate, ccode, climited, elapsed, result,
                   raised, expired, rm, count, hasResource,
                   plimited, retryVars,
                   restVars>>

\* SpawnOk with _limit() called in the parent before Popen instead of being
\* passed as preexec_fn: the child inherits the limits of the parent
SpawnOk_LimitInParent(c) ==
    /\ pc[c] = "try"
    /\ plimited' = hasResource
    /\ cstate' = [cstate EXCEPT ![c] = "running"]
    /\ ccode' = [ccode EXCEPT ![c] =
                   IF files[tmp_path[c]] = NoFile THEN CantOpen
                   ELSE files[tmp_path[c]].content]
    /\ climited' = [climited EXCEPT ![c] = hasResource]
    /\ elapsed' = [elapsed EXCEPT ![c] = 0]
    /\ count' = [count EXCEPT ![c].spawns = @ + 1]
    /\ pc' = [pc EXCEPT ![c] = "communicate"]
    /\ UNCHANGED <<code, timeout, tmp_path, files, result, raised, expired,
                   rm, hasResource, retryVars,
                   restVars>>

\* SpawnOk with "import resource" outside the inner try: where the module
\* is missing the ImportError leaves the call before Popen is reached
SpawnOk_ImportRaises(c) ==
    /\ pc[c] = "try"
    /\ IF hasResource
       THEN /\ cstate' = [cstate EXCEPT ![c] = "running"]
            /\ ccode' = [ccode EXCEPT ![c] =
                           IF files[tmp_path[c]] = NoFile THEN CantOpen
                           ELSE files[tmp_path[c]].content]
            /\ climited' = [climited EXCEPT ![c] = hasResource]
            /\ elapsed' = [elapsed EXCEPT ![c] = 0]
            /\ count' = [count EXCEPT ![c].spawns = @ + 1]
            /\ pc' = [pc EXCEPT ![c] = "communicate"]
            /\ UNCHANGED raised
       ELSE /\ raised' = [raised EXCEPT ![c] = "ImportError"]
            /\ pc' = [pc EXCEPT ![c] = "finally"]
            /\ UNCHANGED <<cstate, ccode, climited, elapsed, count>>
    /\ UNCHANGED <<code, timeout, tmp_path, files, result, expired, rm,
                   hasResource, plimited, retryVars,
                   restVars>>

\* subprocess.Popen(...) succeeds: the child runs _limit where the resource
\* module exists, loads the file and writes its output into the pipes
SpawnOk(c) ==
    /\ pc[c] = "try"
    /\ cstate' = [cstate EXCEPT ![c] = "running"]
    /\ ccode' = [ccode EXCEPT ![c] =
                   IF files[tmp_path[c]] = NoFile THEN CantOpen
                   ELSE files[tmp_path[c]].content]
    /\ climited' = [climited EXCEPT ![c] = hasResource]
    /\ elapsed' = [elapsed EXCEPT ![c] = 0]
    /\ count' = [count EXCEPT ![c].spawns = @ + 1]
    /\ pc' = [pc EXCEPT ![c] = "communicate"]
    /\ UNCHANGED <<code, timeout, tmp_path, files, result, raised, expired,
                   rm, hasResource,
                   plimited, retryVars,
                   restVars>>

\* SpawnFail with the removal after the try statement instead of in finally
SpawnFail_NoFinally(c) ==
    /\ pc[c] = "try"
    /\ raised' = [raised EXCEPT ![c] = "OSError"]
    /\ count' = [count EXCEPT ![c].spawns = @ + 1]
    /\ pc' = [pc EXCEPT ![c] = "done"]
    /\ UNCHANGED <<code, timeout, tmp_path, files, cstate, ccode, climited,
                   elapsed, result, expired, rm, hasResource,
                   plimited, retryVars,
                   restVars>>

\* subprocess.Popen(...) raises (OSError, SubprocessError): no except clause
\* matches, the finally block runs and the exception leaves the call
SpawnFail(c) ==
    /\ pc[c] = "try"
    /\ raised' = [raised EXCEPT ![c] = "OSError"]
    /\ count' = [count EXCEPT ![c].spawns = @ + 1]
    /\ pc' = [pc EXCEPT ![c] = "finally"]
    /\ UNCHANGED <<code, timeout, tmp_path, files, cstate, ccode, climited,
                   elapsed, result, expired, rm, hasResource,
                   plimited, retryVars,
                   restVars>>

\* a tick of wall-clock time while communicate waits
Tick(c) ==
    /\ pc[c] = "communicate"
    /\ cstate[c] = "running"
    /\ elapsed[c] < timeout[c]
    /\ elapsed[c] < EndTime(c)
    /\ elapsed' = [elapsed EXCEPT ![c] = @ + 1]
    /\ UNCHANGED <<pc, code, timeout, tmp_path, files, cstate, ccode,
                   climited, result, raised, expired, rm, count, hasResource,
                   plimited, retryVars,
                   restVars>>

\* the child ends within the timeout: communicate returns the decoded
\* pipes and the return statement of line 114 is executed
Complete(c) ==
    /\ pc[c] = "communicate"
    /\ cstate[c] = "running"
    /\ elapsed[c] = EndTime(c)
    /\ cstate' = [cstate EXCEPT ![c] = "exited"]
    /\ result' = [result EXCEPT ![c] =
                    Completed(ExitStatus(c), Decode(ccode[c].out),
                              Decode(ChildErr(c)))]
    /\ count' = [count EXCEPT ![c].returns = @ + 1]
    /\ pc' = [pc EXCEPT ![c] = "finally"]
    /\ UNCHANGED <<code, timeout, tmp_path, files, ccode, climited, elapsed,
                   raised, expired, rm, hasResource,
                   plimited, retryVars,
                   restVars>>

\* the timeout elapses first: communicate raises TimeoutExpired
Expire(c) ==
    /\ pc[c] = "communicate"
    /\ cstate[c] = "running"
    /\ elapsed[c] = timeout[c]
    /\ expired' = [expired EXCEPT ![c] = TRUE]
    /\ pc' = [pc EXCEPT ![c] = "except"]
    /\ UNCHANGED <<code, timeout, tmp_path, files, cstate, ccode, climited,
                   elapsed, result, raised, rm, count, hasResource,
                   plimited, retryVars,
                   restVars>>

\* Kill returning what the child had written before the timeout
Kill_PartialOutput(c) ==
    /\ pc[c] = "except"
    /\ cstate' = [cstate EXCEPT ![c] = "killing"]
    /\ result' = [result EXCEPT ![c] =
                    [error |-> "timeout", stdout |-> Decode(ccode[c].out),
                     stderr |-> <<"Execution timed out">>]]
    /\ count' = [count EXCEPT ![c].kills = @ + 1, ![c].returns = @ + 1]
    /\ pc' = [pc EXCEPT ![c] = "finally"]
    /\ UNCHANGED <<code, timeout, tmp_path, files, ccode, climited, elapsed,
                   raised, expired, rm, hasResource,
                   plimited, retryVars,
                   restVars>>

\* Kill with proc still None: no signal is sent
Kill_NoSignal(c) ==
    /\ pc[c] = "except"
    /\ result' = [result EXCEPT ![c] = TimedOut]
    /\ count' = [count EXCEPT ![c].returns = @ + 1]
    /\ pc' = [pc EXCEPT ![c] = "finally"]
    /\ UNCHANGED <<code, timeout, tmp_path, files, cstate, ccode, climited,
                   elapsed, raised, expired, rm, hasResource,
                   plimited, retryVars,
                   restVars>>

\* Kill followed by another try of the same execution instead of a return
Kill_Retry(c) ==
    /\ pc[c] = "except"
    /\ cstate' = [cstate EXCEPT ![c] = "killing"]
    /\ count' = [count EXCEPT ![c].kills = @ + 1]
    /\ pc' = [pc EXCEPT ![c] = "try"]
    /\ UNCHANGED <<code, timeout, tmp_path, files, ccode, climited, elapsed,
                   result, raised, expired, rm, hasResource, plimited,
                   retryVars,
                   restVars>>

\* except subprocess.TimeoutExpired: proc.kill() sends the signal and does
\* not wait for the child; then the return statement of line 118
Kill(c) ==
    /\ pc[c] = "except"
    /\ cstate' = [cstate EXCEPT ![c] = "killing"]
    /\ result' = [result EXCEPT ![c] = TimedOut]
    /\ count' = [count EXCEPT ![c].kills = @ + 1, ![c].returns = @ + 1]
    /\ pc' = [pc EXCEPT ![c] = "finally"]
    /\ UNCHANGED <<code, timeout, tmp_path, files, ccode, climited, elapsed,
                   raised, expired, rm, hasResource,
                   plimited, retryVars,
                   restVars>>

\* the kernel delivers the kill: the child dies, whenever that is
ChildDie(c) ==
    /\ cstate[c] = "killing"
    /\ cstate' = [cstate EXCEPT ![c] = "dead"]
    /\ UNCHANGED <<pc, code, timeout, tmp_path, files, ccode, climited,
                   elapsed, result, raised, expired, rm, count, hasResource,
                   plimited, retryVars,
                   restVars>>

\* finally: os.remove(tmp_path) succeeds
RemoveOk(c) ==
    /\ pc[c] = "finally"
    /\ files' = [files EXCEPT ![tmp_path[c]] = NoFile]
    /\ rm' = [rm EXCEPT ![c] = "ok"]
    /\ count' = [count EXCEPT ![c].removes = @ + 1]
    /\ pc' = [pc EXCEPT ![c] = "done"]
    /\ UNCHANGED <<code, timeout, tmp_path, cstate, ccode, climited, elapsed,
                   result, raised, expired, hasResource,
                   plimited, retryVars,
                   restVars>>

\* RemoveFail without the inner try: the error of os.remove leaves the call
RemoveFail_Raises(c) ==
    /\ pc[c] = "finally"
    /\ rm' = [rm EXCEPT ![c] = "failed"]
    /\ raised' = [raised EXCEPT ![c] = "OSError"]
    /\ result' = [result EXCEPT ![c] = NoResult]
    /\ count' = [count EXCEPT ![c].removes = @ + 1]
    /\ pc' = [pc EXCEPT ![c] = "done"]
    /\ UNCHANGED <<code, timeout, tmp_path, files, cstate, ccode, climited,
                   elapsed, expired, hasResource,
                   plimited, retryVars,
                   restVars>>

\* finally: os.remove(tmp_path) raises; except Exception: pass
RemoveFail(c) ==
    /\ pc[c] = "finally"
    /\ rm' = [rm EXCEPT ![c] = "failed"]
    /\ count' = [count EXCEPT ![c].removes = @ + 1]
    /\ pc' = [pc EXCEPT ![c] = "done"]
    /\ UNCHANGED <<code, timeout, tmp_path, files, cstate, ccode, climited,
                   elapsed, result, raised, expired, hasResource,
                   plimited, retryVars,
                   restVars>>

Next ==
    \E c \in Calls :
        \/ Create(c)
        \/ SpawnOk(c)
        \/ SpawnFail(c)
        \/ Tick(c)
        \/ Complete(c)
        \/ Expire(c)
        \/ Kill(c)
        \/ ChildDie(c)
        \/ RemoveOk(c)
        \/ RemoveFail(c)

Spec == Init /\ [][Next]_vars

SpecConc == InitConc /\ [][Next]_vars

(* ------------------- execute_sparql_with_retry ------------------------ *)
RetryCounts == (0..MaxRetries) \cup {DefaultMaxRetries}
Delays == (0..MaxDelay) \cup {DefaultDelay}

\* what the endpoint answers to a query that succeeds
Payloads == {"p1", "p2"}

\* sparql.query().convert(): the answer as the dictionary handed back
Convert(p) == [bindings |-> p]

\* range(n) with the off-by-one of range(n + 1)
Range_Inclusive(n) == 0..n

\* range(n)
Range(n) == 0..(n - 1)

Query(k, o, p) == [kind |-> "query", k |-> k, outcome |-> o, payload |-> p]

Sleep(k, w) == [kind |-> "sleep", k |-> k, wait |-> w]

\* the sandbox is idle while execute_sparql_with_retry is looked at
SandboxOff ==
    /\ pc = [c \in Calls |-> "off"]
    /\ code = [c \in Calls |-> NoCode]
    /\ timeout = [c \in Calls |-> DefaultTimeout]
    /\ tmp_path = [c \in Calls |-> 0]
    /\ files = [n \in Names |-> NoFile]
    /\ cstate = [c \in Calls |-> "none"]
    /\ ccode = [c \in Calls |-> NoCode]
    /\ climited = [c \in Calls |-> FALSE]
    /\ elapsed = [c \in Calls |-> 0]
    /\ result = [c \in Calls |-> NoResult]
    /\ raised = [c \in Calls |-> "none"]
    /\ expired = [c \in Calls |-> FALSE]
    /\ rm = [c \in Calls |-> "none"]
    /\ count = [c \in Calls |->
                  [spawns |-> 0, kills |-> 0, removes |-> 0, returns |-> 0]]
    /\ hasResource = TRUE
    /\ plimited = FALSE

\* one call of execute_sparql_with_retry, any max_retries and delay, with
\* or without the client
InitRetry ==
    /\ SandboxOff
    /\ RestOff
    /\ rpc = "call"
    /\ sparql \in {"client", "None"}
    /\ max_retries \in RetryCounts
    /\ delay \in Delays
    /\ attempt = 0
    /\ results = None
    /\ events = <<>>

\* if sparql is None: return None
StartUnavailable ==
    /\ rpc = "call"
    /\ sparql = "None"
    /\ results' = None
    /\ rpc' = "done"
    /\ UNCHANGED <<sparql, max_retries, delay, attempt, events, sandboxVars,
                   restVars>>

\* the client is there: the for loop starts
StartLoop ==
    /\ rpc = "call"
    /\ sparql # "None"
    /\ attempt' = 0
    /\ rpc' = "loop"
    /\ UNCHANGED <<sparql, max_retries, delay, results, events, sandboxVars,
                   restVars>>

\* AttemptOk keeping the answer and going on with the loop
AttemptOk_NoReturn ==
    /\ rpc = "loop"
    /\ attempt \in Range(max_retries)
    /\ \E p \in Payloads :
          /\ events' = Append(events, Query(attempt, "ok", p))
          /\ results' = Convert(p)
    /\ attempt' = attempt + 1
    /\ UNCHANGED <<rpc, sparql, max_retries, delay, sandboxVars,
                   restVars>>

\* the query and the conversion succeed: return results
AttemptOk ==
    /\ rpc = "loop"
    /\ attempt \in Range(max_retries)
    /\ \E p \in Payloads :
          /\ events' = Append(events, Query(attempt, "ok", p))
          /\ results' = Convert(p)
    /\ rpc' = "done"
    /\ UNCHANGED <<sparql, max_retries, delay, attempt, sandboxVars,
                   restVars>>

\* Attempt429 with the wait doubled per attempt by a product, not a power
Attempt429_Linear ==
    /\ rpc = "loop"
    /\ attempt \in Range(max_retries)
    /\ events' = events \o <<Query(attempt, "429", "none"),
                             Sleep(attempt, delay * (2 * attempt))>>
    /\ attempt' = attempt + 1
    /\ UNCHANGED <<rpc, sparql, max_retries, delay, results, sandboxVars,
                   restVars>>

\* HTTPError with "429" in its text: sleep delay * 2 ** attempt, whatever
\* the attempt, and go on with the loop
Attempt429 ==
    /\ rpc = "loop"
    /\ attempt \in Range(max_retries)
    /\ events' = events \o <<Query(attempt, "429", "none"),
                             Sleep(attempt, delay * (2 ^ attempt))>>
    /\ attempt' = attempt + 1
    /\ UNCHANGED <<rpc, sparql, max_retries, delay, results, sandboxVars,
                   restVars>>

\* the else branches of both except clauses: sleep delay * (attempt + 1)
\* and go on unless this was the last attempt, then return None
RetryOrGiveUp(o) ==
    /\ rpc = "loop"
    /\ attempt \in Range(max_retries)
    /\ IF attempt < max_retries - 1
       THEN /\ events' = events \o <<Query(attempt, o, "none"),
                                    Sleep(attempt, delay * (attempt + 1))>>
            /\ attempt' = attempt + 1
            /\ UNCHANGED <<rpc, results>>
       ELSE /\ events' = Append(events, Query(attempt, o, "none"))
            /\ results' = None
            /\ rpc' = "done"
            /\ UNCHANGED attempt
    /\ UNCHANGED <<sparql, max_retries, delay, sandboxVars,
                   restVars>>

\* HTTPError other than 429
AttemptHttp == RetryOrGiveUp("http")

\* AttemptSyntax handled like any other exception
AttemptSyntax_Retried == RetryOrGiveUp("syntax")

\* an exception whose text has "QueryBadFormed" or "badly formed":
\* return None, no retry
AttemptSyntax ==
    /\ rpc = "loop"
    /\ attempt \in Range(max_retries)
    /\ events' = Append(events, Query(attempt, "syntax", "none"))
    /\ results' = None
    /\ rpc' = "done"
    /\ UNCHANGED <<sparql, max_retries, delay, attempt, sandboxVars,
                   restVars>>

\* any other exception
AttemptOther == RetryOrGiveUp("other")

\* range(max_retries) is exhausted: the return None of line 105
LoopEnd ==
    /\ rpc = "loop"
    /\ attempt \notin Range(max_retries)
    /\ results' = None
    /\ rpc' = "done"
    /\ UNCHANGED <<sparql, max_retries, delay, attempt, events, sandboxVars,
                   restVars>>

NextRetry ==
    \/ StartUnavailable
    \/ StartLoop
    \/ AttemptOk
    \/ Attempt429
    \/ AttemptHttp
    \/ AttemptSyntax
    \/ AttemptOther
    \/ LoopEnd

SpecRetry == InitRetry /\ [][NextRetry]_vars

\* the call runs on its own thread of control and nothing suspends it:
\* every query and every sleep comes back
SpecRetryFair == InitRetry /\ [][NextRetry]_vars /\ WF_vars(NextRetry)

QueryEvents == {i \in DOMAIN events : events[i].kind = "query"}

SleepEvents == {i \in DOMAIN events : events[i].kind = "sleep"}

OkEvents == {i \in QueryEvents : events[i].outcome = "ok"}

(* ---------------------- process_limited_subset ------------------------ *)
\* the values the two limits are drawn from
LanguageLimits == 0..(MaxLangEntries + 1)

DataTypeLimits == 0..(MaxTypes + 1)

\* the QIDs a language or sub-language entry can carry
LangQids == {"Q1", "Q2", "Q3"}

\* the QIDs a data type can carry; "" is the empty QID of line 323
TypeQids == {"", "T1"}

\* the data type metadata files the call can load
TypeFiles == UNION {[1..n -> TypeQids] : n \in 0..MaxTypes}

\* d[key] = value on the dict d kept in insertion order: a key that is
\* already there keeps its place and takes the new value
Put(d, q, name) ==
    IF \E i \in DOMAIN d : d[i].qid = q
    THEN [i \in DOMAIN d |->
             IF d[i].qid = q THEN [qid |-> q, name |-> name] ELSE d[i]]
    ELSE Append(d, [qid |-> q, name |-> name])

\* list(items)[:n] for n >= 0
Slice(items, n) ==
    IF n >= Len(items) THEN items ELSE SubSeq(items, 1, n)

InitSubset ==
    /\ SandboxOff
    /\ RetryOff
    /\ ChatOff
    /\ spc = "langs"
    /\ max_languages \in LanguageLimits
    /\ max_data_types \in DataTypeLimits
    /\ data_type_metadata \in TypeFiles
    /\ nlang = 0
    /\ nsub = 0
    /\ lcount = 0
    /\ language_qids = <<>>
    /\ limited_data_types = <<>>
    /\ li = 1
    /\ di = 1
    /\ issued = <<>>

\* lines 294-299: the next language carries a qid
LangWithQid(q) ==
    /\ spc = "langs"
    /\ nlang < MaxLangEntries
    /\ lcount < max_languages
    /\ nlang' = nlang + 1
    /\ language_qids' = Put(language_qids, q, "lang")
    /\ lcount' = lcount + 1
    /\ UNCHANGED <<spc, max_languages, max_data_types, data_type_metadata,
                   nsub, limited_data_types, li, di, issued,
                   sandboxVars, retryVars, chatVars>>

\* lines 294-301: the next language has no qid but has sub_languages
LangWithSubs ==
    /\ spc = "langs"
    /\ nlang < MaxLangEntries
    /\ lcount < max_languages
    /\ nlang' = nlang + 1
    /\ nsub' = 0
    /\ spc' = "subs"
    /\ UNCHANGED <<max_languages, max_data_types, data_type_metadata,
                   lcount, language_qids, limited_data_types, li, di, issued,
                   sandboxVars, retryVars, chatVars>>

\* lines 294-300: the next language has neither key
LangPlain ==
    /\ spc = "langs"
    /\ nlang < MaxLangEntries
    /\ lcount < max_languages
    /\ nlang' = nlang + 1
    /\ UNCHANGED <<spc, max_languages, max_data_types, data_type_metadata,
                   nsub, lcount, language_qids, limited_data_types, li, di,
                   issued, sandboxVars, retryVars, chatVars>>

\* lines 295-296: the limit is reached while entries may remain
LangBreak ==
    /\ spc = "langs"
    /\ lcount >= max_languages
    /\ spc' = "limit"
    /\ UNCHANGED <<max_languages, max_data_types, data_type_metadata,
                   nlang, nsub, lcount, language_qids, limited_data_types,
                   li, di, issued, sandboxVars, retryVars, chatVars>>

\* line 294: language_metadata has no further entry
LangsEnd ==
    /\ spc = "langs"
    /\ lcount < max_languages
    /\ spc' = "limit"
    /\ UNCHANGED <<max_languages, max_data_types, data_type_metadata,
                   nlang, nsub, lcount, language_qids, limited_data_types,
                   li, di, issued, sandboxVars, retryVars, chatVars>>

\* lines 301-306 without the check of lines 302-303
SubWithQid_NoLimit(q) ==
    /\ spc = "subs"
    /\ nsub < MaxSubs
    /\ nsub' = nsub + 1
    /\ language_qids' = Put(language_qids, q, "lang_sub")
    /\ lcount' = lcount + 1
    /\ UNCHANGED <<spc, max_languages, max_data_types, data_type_metadata,
                   nlang, limited_data_types, li, di, issued,
                   sandboxVars, retryVars, chatVars>>

\* lines 301-306: the next sub-language carries a qid
SubWithQid(q) ==
    /\ spc = "subs"
    /\ nsub < MaxSubs
    /\ lcount < max_languages
    /\ nsub' = nsub + 1
    /\ language_qids' = Put(language_qids, q, "lang_sub")
    /\ lcount' = lcount + 1
    /\ UNCHANGED <<spc, max_languages, max_data_types, data_type_metadata,
                   nlang, limited_data_types, li, di, issued,
                   sandboxVars, retryVars, chatVars>>

\* lines 301-304: the next sub-language carries no qid
SubPlain ==
    /\ spc = "subs"
    /\ nsub < MaxSubs
    /\ lcount < max_languages
    /\ nsub' = nsub + 1
    /\ UNCHANGED <<spc, max_languages, max_data_types, data_type_metadata,
                   nlang, lcount, language_qids, limited_data_types, li, di,
                   issued, sandboxVars, retryVars, chatVars>>

\* lines 302-303: the limit is reached inside sub_languages; the outer
\* loop goes on to its own check
SubBreak ==
    /\ spc = "subs"
    /\ lcount >= max_languages
    /\ spc' = "langs"
    /\ UNCHANGED <<max_languages, max_data_types, data_type_metadata,
                   nlang, nsub, lcount, language_qids, limited_data_types,
                   li, di, issued, sandboxVars, retryVars, chatVars>>

\* line 301: sub_languages has no further entry
SubsEnd ==
    /\ spc = "subs"
    /\ lcount < max_languages
    /\ spc' = "langs"
    /\ UNCHANGED <<max_languages, max_data_types, data_type_metadata,
                   nlang, nsub, lcount, language_qids, limited_data_types,
                   li, di, issued, sandboxVars, retryVars, chatVars>>

\* line 309
LimitTypes ==
    /\ spc = "limit"
    /\ limited_data_types' = Slice(data_type_metadata, max_data_types)
    /\ li' = 1
    /\ di' = 1
    /\ spc' = "process"
    /\ UNCHANGED <<max_languages, max_data_types, data_type_metadata,
                   nlang, nsub, lcount, language_qids, issued,
                   sandboxVars, retryVars, chatVars>>

\* lines 322-324: a data type with an empty QID is skipped
SkipEmptyType ==
    /\ spc = "process"
    /\ li <= Len(language_qids)
    /\ di <= Len(limited_data_types)
    /\ limited_data_types[di] = ""
    /\ di' = di + 1
    /\ UNCHANGED <<spc, max_languages, max_data_types, data_type_metadata,
                   nlang, nsub, lcount, language_qids, limited_data_types,
                   li, issued, sandboxVars, retryVars, chatVars>>

\* lines 326-347: one call of filtering, which builds one query and
\* hands it to execute_sparql_with_retry; whether it comes back with
\* results or with None, one entry of output_data is written
ProcessCombination ==
    /\ spc = "process"
    /\ li <= Len(language_qids)
    /\ di <= Len(limited_data_types)
    /\ limited_data_types[di] # ""
    /\ issued' = Append(issued, [lang |-> language_qids[li].qid,
                                 type |-> limited_data_types[di]])
    /\ di' = di + 1
    /\ UNCHANGED <<spc, max_languages, max_data_types, data_type_metadata,
                   nlang, nsub, lcount, language_qids, limited_data_types,
                   li, sandboxVars, retryVars, chatVars>>

\* lines 318-322: the data types of one language are done
NextLanguage ==
    /\ spc = "process"
    /\ li <= Len(language_qids)
    /\ di > Len(limited_data_types)
    /\ li' = li + 1
    /\ di' = 1
    /\ UNCHANGED <<spc, max_languages, max_data_types, data_type_metadata,
                   nlang, nsub, lcount, language_qids, limited_data_types,
                   issued, sandboxVars, retryVars, chatVars>>

\* lines 350-354: every language is done, the output is saved and returned
SaveResults ==
    /\ spc = "process"
    /\ li > Len(language_qids)
    /\ spc' = "done"
    /\ UNCHANGED <<max_languages, max_data_types, data_type_metadata,
                   nlang, nsub, lcount, language_qids, limited_data_types,
                   li, di, issued, sandboxVars, retryVars, chatVars>>

NextSubset ==
    \/ \E q \in LangQids : LangWithQid(q)
    \/ LangWithSubs
    \/ LangPlain
    \/ LangBreak
    \/ LangsEnd
    \/ \E q \in LangQids : SubWithQid(q)
    \/ SubPlain
    \/ SubBreak
    \/ SubsEnd
    \/ LimitTypes
    \/ SkipEmptyType
    \/ ProcessCombination
    \/ NextLanguage
    \/ SaveResults

SpecSubset == InitSubset /\ [][NextSubset]_vars

\* the distinct languages and the queries of the calls of filtering
IssuedLanguages == {issued[i].lang : i \in DOMAIN issued}

(* --------------------------- SuperChat.ask ---------------------------- *)
Prompts == {<<"hi">>, <<"run">>}

\* the content pieces a well-formed chunk of a stream can carry
Pieces == {"a", "b"}

\* the texts a non-streaming completion can carry
Replies == {<<>>, <<"a">>, <<"a", "b">>}

\* what the API raises: at create, or while the stream is read
ApiErrors == {"timeout", "rate limit"}

\* the AttributeError of a client that has no ChatCompletion.create
NoCreate == "no attribute create"

SystemPrompt == <<"system prompt">>

\* line 169
ToyText == <<"[toy assistant response] (no openai package installed)">>

\* line 219: f"[API error] {e}"
ErrText(e) == <<"[API error] ", e>>

Message(role, content) == [role |-> role, content |-> content]

\* SuperChat.__init__ on a client that is absent, has ChatCompletion.create
\* or lacks it
InitChat ==
    /\ SandboxOff
    /\ RetryOff
    /\ SubsetOff
    /\ apc = "idle"
    /\ openai \in {"None", "legacy", "nocreate"}
    /\ messages = <<Message("system", SystemPrompt)>>
    /\ before = messages
    /\ prompt = <<>>
    /\ stream = FALSE
    /\ response_text = <<>>
    /\ nchunks = 0
    /\ ret = <<>>
    /\ path = "none"
    /\ asks = 0

\* lines 165-171: no client installed
AskNoClient(p, st) ==
    /\ apc = "idle"
    /\ asks < MaxAsks
    /\ openai = "None"
    /\ asks' = asks + 1
    /\ before' = messages
    /\ prompt' = p
    /\ stream' = st
    /\ messages' = messages \o <<Message("user", p),
                                 Message("assistant", ToyText)>>
    /\ ret' = ToyText
    /\ path' = "no client"
    /\ UNCHANGED <<apc, openai, response_text, nchunks,
                   sandboxVars, retryVars, subsetVars>>

\* lines 165-174: the user message is added and the API is about to be
\* called
AskBegin(p, st) ==
    /\ apc = "idle"
    /\ asks < MaxAsks
    /\ openai # "None"
    /\ asks' = asks + 1
    /\ before' = messages
    /\ prompt' = p
    /\ stream' = st
    /\ messages' = Append(messages, Message("user", p))
    /\ apc' = "call"
    /\ path' = "none"
    /\ UNCHANGED <<openai, response_text, nchunks, ret,
                   sandboxVars, retryVars, subsetVars>>

\* lines 207-217: the non-streaming call succeeds
CreateOk(reply) ==
    /\ apc = "call"
    /\ openai = "legacy"
    /\ ~stream
    /\ messages' = Append(messages, Message("assistant", reply))
    /\ ret' = reply
    /\ path' = "plain"
    /\ apc' = "idle"
    /\ UNCHANGED <<openai, before, prompt, stream, response_text, nchunks,
                   asks, sandboxVars, retryVars, subsetVars>>

\* lines 175-221: create raises, in either branch; a client without
\* create takes the else branch and raises there
CreateRaises(e) ==
    /\ apc = "call"
    /\ IF openai = "legacy" THEN e \in ApiErrors ELSE e = NoCreate
    /\ messages' = Append(messages, Message("assistant", ErrText(e)))
    /\ ret' = ErrText(e)
    /\ path' = "api error"
    /\ apc' = "idle"
    /\ UNCHANGED <<openai, before, prompt, stream, response_text, nchunks,
                   asks, sandboxVars, retryVars, subsetVars>>

\* lines 175-187: the streaming call is accepted
StreamOpen ==
    /\ apc = "call"
    /\ openai = "legacy"
    /\ stream
    /\ response_text' = <<>>
    /\ nchunks' = 0
    /\ apc' = "stream"
    /\ UNCHANGED <<openai, messages, before, prompt, stream, ret, path,
                   asks, sandboxVars, retryVars, subsetVars>>

\* lines 188-203: a chunk with a content piece
StreamChunk(piece) ==
    /\ apc = "stream"
    /\ nchunks < MaxChunks
    /\ nchunks' = nchunks + 1
    /\ response_text' = Append(response_text, piece)
    /\ UNCHANGED <<apc, openai, messages, before, prompt, stream, ret, path,
                   asks, sandboxVars, retryVars, subsetVars>>

\* lines 188-201: a chunk without content, or one that is malformed
StreamChunkEmpty ==
    /\ apc = "stream"
    /\ nchunks < MaxChunks
    /\ nchunks' = nchunks + 1
    /\ UNCHANGED <<apc, openai, messages, before, prompt, stream,
                   response_text, ret, path, asks,
                   sandboxVars, retryVars, subsetVars>>

\* lines 218-221 recording the text received so far, returning the error
StreamRaises_KeepsPartial(e) ==
    /\ apc = "stream"
    /\ messages' = Append(messages, Message("assistant", response_text))
    /\ ret' = ErrText(e)
    /\ path' = "stream error"
    /\ apc' = "idle"
    /\ UNCHANGED <<openai, before, prompt, stream, response_text, nchunks,
                   asks, sandboxVars, retryVars, subsetVars>>

\* lines 188, 218-221: reading the stream raises; the text received so
\* far is dropped
StreamRaises(e) ==
    /\ apc = "stream"
    /\ messages' = Append(messages, Message("assistant", ErrText(e)))
    /\ ret' = ErrText(e)
    /\ path' = "stream error"
    /\ apc' = "idle"
    /\ UNCHANGED <<openai, before, prompt, stream, response_text, nchunks,
                   asks, sandboxVars, retryVars, subsetVars>>

\* lines 204-206: the stream ends
StreamEnd ==
    /\ apc = "stream"
    /\ messages' = Append(messages, Message("assistant", response_text))
    /\ ret' = response_text
    /\ path' = "stream"
    /\ apc' = "idle"
    /\ UNCHANGED <<openai, before, prompt, stream, response_text, nchunks,
                   asks, sandboxVars, retryVars, subsetVars>>

NextChat ==
    \/ \E p \in Prompts, st \in BOOLEAN : AskNoClient(p, st)
    \/ \E p \in Prompts, st \in BOOLEAN : AskBegin(p, st)
    \/ \E reply \in Replies : CreateOk(reply)
    \/ \E e \in ApiErrors \cup {NoCreate} : CreateRaises(e)
    \/ StreamOpen
    \/ \E piece \in Pieces : StreamChunk(piece)
    \/ StreamChunkEmpty
    \/ \E e \in ApiErrors : StreamRaises(e)
    \/ StreamEnd

SpecChat == InitChat /\ [][NextChat]_vars

(* --------------------------- shared notions --------------------------- *)
\* the results a call with snippet s and timeout t can return when its
\* child is spawned, with the limits of _limit (lim) or without them
Outcomes(s, t, lim) ==
    LET cut == lim /\ s.cpu /\ s.dur > CpuLimit
        oom == lim /\ s.mem /\ ~cut
        end == IF cut THEN CpuLimit ELSE s.dur
        status == IF cut THEN KilledByLimit
                  ELSE IF oom THEN MemoryErrorStatus ELSE s.rc
        err == IF oom THEN Append(s.err, "MemoryError") ELSE s.err
    IN  (IF end >= t THEN {TimedOut} ELSE {})
        \cup (IF end <= t
              THEN {Completed(status, Decode(s.out), Decode(err))} ELSE {})

Returned(c) == pc[c] = "done" /\ raised[c] = "none"

OwnFileExists(c) == \E n \in Names : files[n] # NoFile /\ files[n].owner = c

IsCompleted(r) == "returncode" \in DOMAIN r

IsMarked(r) == "error" \in DOMAIN r

TypeOK ==
    /\ pc \in [Calls -> {"off", "start", "try", "communicate", "except",
                         "finally", "done"}]
    /\ cstate \in [Calls -> {"none", "running", "exited", "killing", "dead"}]
    /\ \A c \in Calls : elapsed[c] \in 0..MaxTimeout + 1

(* ------------------------------- claims ------------------------------- *)

\* C1 (as stated): when a call has returned or raised, the temporary file
\* it created does not exist any more, whatever the outcome.
C1_FileGoneAfterCall ==
    \A c \in Calls : pc[c] = "done" => ~OwnFileExists(c)

\* C1 (amended): when a call has returned or raised, os.remove has been
\* tried on its temporary file, and the file does not exist any more unless
\* that os.remove failed.
C1_FileGoneUnlessRemoveFailed ==
    \A c \in Calls :
        pc[c] = "done" =>
            /\ rm[c] # "none"
            /\ (rm[c] = "ok" => ~OwnFileExists(c))

C1_Witness ==
    \E c \in Calls :
        /\ pc[c] = "done"
        /\ raised[c] = "OSError"
        /\ rm[c] = "ok"
        /\ ~OwnFileExists(c)

\* C2: when a call has returned, the child it spawned is no longer running.
C2_ChildTerminatedAtReturn ==
    \A c \in Calls : Returned(c) => cstate[c] \notin {"running", "killing"}

\* C3: when spawning the child fails, the call returns a Failed{error}
\* result instead of raising, and the spawn is tried once only.
C3_SpawnFailureReturnsFailed ==
    \A c \in Calls :
        (pc[c] = "done" /\ cstate[c] = "none") =>
            /\ raised[c] = "none"
            /\ IsMarked(result[c])
            /\ count[c].spawns = 1

\* C4: a snippet whose runtime exceeds the timeout makes the call return
\* TimedOut, for every timeout, and leaves no child running.
C4_LongRunIsTimedOut ==
    \A c \in Calls :
        (pc[c] = "done" /\ cstate[c] # "none" /\ code[c].dur > timeout[c]) =>
            /\ result[c] = TimedOut
            /\ cstate[c] \notin {"running", "killing"}

\* C5: once the wait has elapsed before the child exits, the child is sent
\* the kill and the result is exactly the timeout variant: the timeout
\* marker, empty stdout, stderr "Execution timed out", no exit code and
\* nothing of what the child had written.
C5_TimeoutVariant ==
    \A c \in Calls :
        (expired[c] /\ pc[c] \in {"finally", "done"}) =>
            /\ count[c].kills = 1
            /\ cstate[c] \in {"killing", "dead"}
            /\ result[c] = TimedOut
            /\ result[c].stdout = <<>>
            /\ ~IsCompleted(result[c])
            /\ raised[c] = "none"

C5_Witness ==
    \E c \in Calls :
        /\ pc[c] = "done"
        /\ expired[c]
        /\ ccode[c].out # <<>>
        /\ result[c] = TimedOut

\* C6: when the child exits within the deadline the result is Completed,
\* with the child's exit status and with stdout and stderr each exactly
\* what the child wrote to that stream.
C6_CompletedIsVerbatim ==
    \A c \in Calls :
        (pc[c] \in {"finally", "done"} /\ cstate[c] = "exited") =>
            result[c] = Completed(ExitStatus(c), ccode[c].out, ChildErr(c))

\* C7: every call produces exactly one result, and the result carries
\* either an exit code or an error marker, never both and never neither.
C7_ExactlyOneVariant ==
    \A c \in Calls :
        pc[c] = "done" =>
            /\ count[c].returns = 1
            /\ IsCompleted(result[c]) # IsMarked(result[c])

\* C8: the temporary file is released exactly once per call: os.remove is
\* never tried twice, it has been tried once when the call is over, and it
\* is tried only after the child has ended or been sent the kill (or was
\* never spawned, the spawn having raised).
C8_ReleasedExactlyOnce ==
    \A c \in Calls :
        /\ count[c].removes <= 1
        /\ (pc[c] = "done" => count[c].removes = 1)
        /\ (count[c].removes = 1 =>
                cstate[c] \in {"none", "exited", "killing", "dead"})
        /\ (count[c].removes = 1 /\ cstate[c] = "none" =>
                raised[c] = "OSError")

C8_Witness ==
    \E c \in Calls :
        /\ pc[c] = "done"
        /\ expired[c]
        /\ count[c].removes = 1
        /\ count[c].kills = 1

\* C9: a failing os.remove raises nothing and leaves the result as it was:
\* the call delivers what its return statement had computed.
C9_RemoveFailureSwallowed ==
    [][\A c \in Calls :
          (pc[c] = "finally" /\ pc'[c] = "done" /\ rm'[c] = "failed") =>
              /\ result'[c] = result[c]
              /\ raised'[c] = raised[c]]_vars

C9_Witness ==
    \E c \in Calls :
        /\ Returned(c)
        /\ rm[c] = "failed"
        /\ IsCompleted(result[c])
        /\ OwnFileExists(c)

\* C10: concurrent calls do not interfere.  While a call is between the
\* creation and the removal of its file, the file under its name is its
\* own and holds its own code, no other call has the same name, its child
\* runs its own code, a file disappears only by the os.remove of the call
\* that created it, and the result of a call is the one its own snippet
\* and timeout give.
Holding(c) == pc[c] \in {"try", "communicate", "except", "finally"}

OwnOutcome(c) ==
    /\ result[c] \in Outcomes(code[c], timeout[c], hasResource)
    /\ (code[c].dur > timeout[c] /\ ~code[c].cpu => result[c] = TimedOut)

C10_Isolated ==
    \A c \in Calls :
        /\ Holding(c) =>
              /\ files[tmp_path[c]] # NoFile
              /\ files[tmp_path[c]].owner = c
              /\ files[tmp_path[c]].content = code[c]
              /\ \A d \in Calls \ {c} :
                     Holding(d) => tmp_path[d] # tmp_path[c]
        /\ (cstate[c] # "none" => ccode[c] = code[c])
        /\ (Returned(c) => OwnOutcome(c))

C10_NoInterference ==
    /\ []C10_Isolated
    /\ [][\A n \in Names :
             (files[n] # NoFile /\ files'[n] = NoFile) =>
                 /\ pc[files[n].owner] = "finally"
                 /\ pc'[files[n].owner] = "done"]_vars

C10_Witness ==
    \E c, d \in Calls :
        /\ c # d
        /\ code[c] # code[d]
        /\ Returned(c) /\ IsCompleted(result[c])
        /\ pc[d] = "communicate" /\ elapsed[d] > 0

\* C11: the CPU-time and address-space limits are applied in the child of
\* the call, which has them from the moment it runs the snippet wherever the
\* platform has the primitive, and never before a child exists; the limits
\* of the parent process are never changed.
C11_LimitsInChildOnly ==
    /\ plimited = FALSE
    /\ \A c \in Calls :
          /\ (cstate[c] # "none" => climited[c] = hasResource)
          /\ (cstate[c] = "none" => ~climited[c])

C11_Witness ==
    \E c \in Calls :
        /\ cstate[c] = "running"
        /\ elapsed[c] = 0
        /\ climited[c]
        /\ ~plimited

\* C12: on a platform without the resource primitive the call still works:
\* its child runs without limits, the only exception that can leave the call
\* is the one of a failed Popen, and what it returns is the Completed or
\* TimedOut result of its snippet run without limits.
C12_WorksWithoutPrimitive ==
    ~hasResource =>
        \A c \in Calls :
            /\ (raised[c] # "none" =>
                    count[c].spawns = 1 /\ cstate[c] = "none")
            /\ ~climited[c]
            /\ (Returned(c) =>
                    /\ ~IsMarked(result[c]) \/ result[c] = TimedOut
                    /\ result[c] \in Outcomes(code[c], timeout[c], FALSE))

C12_Witness ==
    \E c \in Calls :
        /\ ~hasResource
        /\ Returned(c)
        /\ code[c].cpu /\ code[c].dur > CpuLimit
        /\ IsCompleted(result[c])
        /\ result[c].returncode = code[c].rc

\* C13: a run without limits is distinguishable by the caller from a run
\* with limits.  run_python_sandbox logs nothing, so all the caller observes
\* is the result: the result of a run without limits is never one that the
\* same call gives with the limits applied.
C13_DegradedModeObservable ==
    \A c \in Calls :
        (Returned(c) /\ ~climited[c]) =>
            result[c] \notin Outcomes(code[c], timeout[c], TRUE)

\* C14: a call spawns at most one child and sends at most one kill; once
\* the timeout has elapsed no more time is given to the child (the kill is
\* sent at the tick of the timeout) and the execution is not tried again.
C14_OneChildNoGrace ==
    \A c \in Calls :
        /\ count[c].spawns <= 1
        /\ count[c].kills <= 1
        /\ (expired[c] =>
               /\ elapsed[c] = timeout[c]
               /\ (pc[c] # "except" => count[c].kills = 1)
               /\ pc[c] \in {"except", "finally", "done"})

C14_Witness ==
    \E c \in Calls :
        /\ pc[c] = "done"
        /\ expired[c]
        /\ count[c].spawns = 1
        /\ count[c].kills = 1

C16_BoundedAttempts ==
    /\ Cardinality(QueryEvents) <= max_retries
    /\ \A i \in QueryEvents : events[i].k \in 0..(max_retries - 1)
    /\ (rpc = "done" /\ (max_retries = 0 \/ sparql = "None") =>
            events = <<>> /\ results = None)

C16_TerminatesBounded ==
    /\ []C16_BoundedAttempts
    /\ <>(rpc = "done")

C16_Witness ==
    /\ rpc = "done"
    /\ max_retries = DefaultMaxRetries
    /\ Cardinality(QueryEvents) = max_retries
    /\ \E i \in QueryEvents : events[i].outcome = "429"
    /\ \E i \in QueryEvents : events[i].outcome = "other"

\* C17: a query syntax error is never retried: its attempt is the last
\* thing the call does (no sleep, no query after it) and the call returns
\* None.
C17_SyntaxErrorNotRetried ==
    \A i \in QueryEvents :
        events[i].outcome = "syntax" =>
            /\ i = Len(events)
            /\ rpc = "done"
            /\ results = None

C17_Witness ==
    /\ rpc = "done"
    /\ Len(events) > 1
    /\ events[Len(events)].kind = "query"
    /\ events[Len(events)].outcome = "syntax"
    /\ events[Len(events)].k < max_retries - 1

\* C18: the call never sleeps after its final attempt (index
\* max_retries - 1), so it sleeps at most max_retries - 1 times, for every
\* kind of failure, HTTP 429 included.
C18_NoSleepAfterFinalAttempt ==
    /\ \A i \in SleepEvents : events[i].k < max_retries - 1
    /\ (max_retries > 0 => Cardinality(SleepEvents) <= max_retries - 1)

\* C19: the call returns the converted answer of the first attempt that
\* succeeds and does nothing after it; it returns None exactly when no
\* attempt succeeded.
C19_FirstSuccessReturned ==
    /\ \A i \in OkEvents :
          /\ i = Len(events)
          /\ rpc = "done"
          /\ results = Convert(events[i].payload)
    /\ (rpc = "done" => (results = None <=> OkEvents = {}))

C19_Witness ==
    /\ rpc = "done"
    /\ OkEvents # {}
    /\ Len(events) > 1
    /\ results = Convert("p2")

\* the wait of every sleep is delay * 2^k after a 429 and delay * (k + 1)
\* after another retried failure, k being the index of the failed attempt
WaitsAsComputed ==
    \A i \in SleepEvents :
        /\ i > 1
        /\ events[i - 1].kind = "query"
        /\ events[i - 1].k = events[i].k
        /\ events[i].wait =
              IF events[i - 1].outcome = "429"
              THEN delay * (2 ^ events[i].k)
              ELSE delay * (events[i].k + 1)

\* C20 (as stated): the waits are computed so, and within one call they are
\* strictly increasing in k for delay > 0.
C20_WaitsStrictlyIncreasing ==
    /\ WaitsAsComputed
    /\ (delay > 0 =>
           \A i, j \in SleepEvents :
               i < j => events[i].wait < events[j].wait)

\* C20 (amended): the waits are computed so, and for delay > 0 a wait is
\* longer than every earlier wait of the call unless it is the wait of a
\* failure other than 429 that comes after the wait of a 429.
C20_WaitsIncreasingPerKind ==
    /\ WaitsAsComputed
    /\ (delay > 0 =>
           \A i, j \in SleepEvents :
               (i < j /\ ~(/\ events[i - 1].outcome = "429"
                           /\ events[j - 1].outcome # "429")) =>
                   events[i].wait < events[j].wait)

C20_Witness ==
    /\ delay > 0
    /\ \E i, j \in SleepEvents :
          /\ i < j
          /\ events[i - 1].outcome = "429"
          /\ events[j - 1].outcome = "other"
          /\ events[i].wait = events[j].wait

C22_OneUserOneAssistant ==
    /\ (apc = "idle" /\ asks > 0) =>
           messages = before \o <<Message("user", prompt),
                                  Message("assistant", ret)>>
    /\ apc # "idle" =>
           messages = Append(before, Message("user", prompt))
    /\ apc = "idle" => Len(messages) = 1 + 2 * asks

\* a second call that failed in the middle of a stream after text had
\* arrived
C22_Witness ==
    /\ apc = "idle"
    /\ asks = 2
    /\ path = "stream error"
    /\ response_text # <<>>
    /\ ret \in {ErrText(e) : e \in ApiErrors}
    /\ Len(messages) = 5

====
